---------------------------- MODULE Spec2Model ----------------------------
(***************************************************************************)
(* A model of epub_word_extractor.py and find_common.py.                   *)
(*                                                                         *)
(* Text is a sequence of symbols.  A symbol is one character ("a", "1",    *)
(* " ", "-", ...) or one markup tag or character reference taken as a      *)
(* whole ("<p.bodytext>" stands for <p class="bodytext">, "&mdash;" for    *)
(* the reference of that name).  The regular expressions of the source     *)
(* are computed on these sequences.                                        *)
(***************************************************************************)
EXTENDS Integers, Sequences, FiniteSets, TLC

VARIABLES
    \* extract_words_from_content
    content,            \* the markup handed to the word extractor
    wpc,                \* "start" | "done"
    vocabulary_words,   \* raw captures of extract_vocabulary_entries
    words,              \* the list returned
    called,             \* the functions extract_words_from_content called
    \* find_common_words
    file1, file2,       \* [st: "ok" | "missing" | "unreadable", lines]
    out_file,           \* [exists, lines]
    out_before,         \* out_file as it was before the call
    out_writable,       \* whether open(output_path, 'w') succeeds
    cpc,                \* "start" | "read1" | "read2" | "done"
    words1_list, words2_set,
    cresult,            \* the value returned (read when cpc = "done")
    \* get_epub_spine
    archive,            \* container descriptor, package document
    spc,                \* "start" | "done"
    ordered_files,      \* the list returned
    \* main
    args,               \* [epub_exists, pages, list_files]
    book,               \* the content files of the archive, in order
    disk_ok,            \* whether the output file can be written
    mpc,                \* position in main
    range,              \* <<start_page, end_page>>
    range_err,          \* whether parse_page_range raised ValueError
    files_to_process,   \* the files extract_epub_content_by_range selected
    mcontent,           \* the extracted content
    mwords,             \* the extracted words
    output,             \* [exists, lines]: the output file
    printed,            \* the messages printed
    exit_code           \* the exit code (read when mpc = "exit")

wvars == <<content, wpc, vocabulary_words, words, called>>
cvars == <<file1, file2, out_file, out_before, out_writable, cpc, words1_list, words2_set, cresult>>
svars == <<archive, spc, ordered_files>>
mvars == <<args, book, disk_ok, mpc, range, range_err, files_to_process, mcontent, mwords,
           output, printed, exit_code>>
vars == <<wvars, cvars, svars, mvars>>

---------------------------------------------------------------------------
(* Characters *)

LowerLetters == {"a", "b", "j", "s"}
UpperLetters == {"A", "B", "J", "S"}
Letters == LowerLetters \cup UpperLetters
Digits == {"0", "1", "2", "3", "4", "5", "6", "7", "8", "9"}
Cjk == "CJK"
Joiners == {"-", "'"}

\* str.lower() on one character
LowerChar(c) ==
    CASE c = "A" -> "a" [] c = "B" -> "b" [] c = "J" -> "j" [] c = "S" -> "s"
      [] c = "H" -> "h" [] c = "T" -> "t" [] c = "M" -> "m" [] c = "L" -> "l"
      [] c = "X" -> "x"
      [] OTHER -> c

\* str.lower()
Lower(s) == [i \in 1..Len(s) |-> LowerChar(s[i])]

\* \s of the re module
IsSpace(c) == c \in {" ", "\n"}

\* \w of the re module on str patterns: letters, digits, underscore, and the
\* letters of other scripts
IsWordChar(c) == c \in Letters \cup Digits \cup {"_", Cjk}

\* markup tags, each one symbol
PBody == "<p.bodytext>"
SpanYinbiao == "<span.yinbiao>"
SpanTitle == "<span.text-title1>"
SpanClose == "</span>"
PPlain == "<p>"
PClose == "</p>"
StyleOpen == "<style>"
StyleClose == "</style>"
Tags == {PBody, SpanYinbiao, SpanTitle, SpanClose, PPlain, PClose, StyleOpen, StyleClose}
IsTag(c) == c \in Tags

RECURSIVE LStrip(_)
LStrip(s) == IF s # <<>> /\ IsSpace(Head(s)) THEN LStrip(Tail(s)) ELSE s

RECURSIVE RStrip(_)
RStrip(s) ==
    IF s # <<>> /\ IsSpace(s[Len(s)]) THEN RStrip(SubSeq(s, 1, Len(s) - 1)) ELSE s

\* str.strip()
Strip(s) == LStrip(RStrip(s))

\* re.search(r'\d', word)
HasDigit(s) == \E i \in 1..Len(s) : s[i] \in Digits

IsLetter(c) == c \in Letters

\* the position after the run of letters that starts at i
RECURSIVE LetterRunEnd(_, _)
LetterRunEnd(s, i) ==
    IF i <= Len(s) /\ IsLetter(s[i]) THEN LetterRunEnd(s, i + 1) ELSE i

\* the position after the run of whitespace that starts at i
RECURSIVE SpaceRunEnd(_, _)
SpaceRunEnd(s, i) ==
    IF i <= Len(s) /\ IsSpace(s[i]) THEN SpaceRunEnd(s, i + 1) ELSE i

\* The ends (last positions) of the prefixes of s[i..] matching
\* [a-zA-Z]+(?:[-'][a-zA-Z]+)* that the regex engine can stop at: the end of
\* each letter run of the chain.  Empty when s[i] is no letter.
RECURSIVE ChainEnds(_, _)
ChainEnds(s, i) ==
    IF i > Len(s) \/ ~IsLetter(s[i]) THEN {}
    ELSE LET e == LetterRunEnd(s, i) - 1
         IN  {e} \cup (IF e + 2 <= Len(s) /\ s[e + 1] \in Joiners /\ IsLetter(s[e + 2])
                       THEN ChainEnds(s, e + 2) ELSE {})

Max(S) == CHOOSE x \in S : \A y \in S : y <= x

\* the first position >= i holding symbol t, 0 when there is none
RECURSIVE Find(_, _, _)
Find(s, t, i) ==
    IF i > Len(s) THEN 0 ELSE IF s[i] = t THEN i ELSE Find(s, t, i + 1)

---------------------------------------------------------------------------
(* extract_vocabulary_entries *)

NoMatch == [ok |-> FALSE, cap |-> <<>>, end |-> 0]

\* pattern1 tried at position i:
\* <p class="bodytext">([a-zA-Z]+(?:[-'][a-zA-Z]+)*)\s*<span class="yinbiao">.*?</span>.*?</p>
Pattern1At(s, i) ==
    IF s[i] # PBody \/ ChainEnds(s, i + 1) = {} THEN NoMatch
    ELSE LET e == Max(ChainEnds(s, i + 1))
             j == SpaceRunEnd(s, e + 1)
         IN  IF j > Len(s) \/ s[j] # SpanYinbiao THEN NoMatch
             ELSE LET k == Find(s, SpanClose, j + 1)
                  IN  IF k = 0 \/ Find(s, PClose, k + 1) = 0 THEN NoMatch
                      ELSE [ok |-> TRUE, cap |-> SubSeq(s, i + 1, e),
                            end |-> Find(s, PClose, k + 1)]

\* whether p[i..] matches [a-zA-Z]+(?:\s+[a-zA-Z]+)*(?:\s*[-'][a-zA-Z]+)* to
\* its end; hy: a [-'] group has been matched, so no \s+word group may follow
RECURSIVE PhraseFrom(_, _, _)
PhraseFrom(p, i, hy) ==
    IF i > Len(p) \/ ~IsLetter(p[i]) THEN FALSE
    ELSE LET e == LetterRunEnd(p, i)
             k == SpaceRunEnd(p, e)
         IN  IF e > Len(p) THEN TRUE
             ELSE IF k > Len(p) THEN FALSE
             ELSE IF IsLetter(p[k]) THEN k > e /\ ~hy /\ PhraseFrom(p, k, FALSE)
             ELSE IF p[k] \in Joiners THEN PhraseFrom(p, k + 1, TRUE)
             ELSE FALSE

IsPhraseChar(c) == IsLetter(c) \/ IsSpace(c) \/ c \in Joiners

RECURSIVE PhraseRunEnd(_, _)
PhraseRunEnd(s, i) ==
    IF i <= Len(s) /\ IsPhraseChar(s[i]) THEN PhraseRunEnd(s, i + 1) ELSE i

\* the position after the run of [^<] that starts at i
RECURSIVE NonTagRunEnd(_, _)
NonTagRunEnd(s, i) ==
    IF i <= Len(s) /\ ~IsTag(s[i]) THEN NonTagRunEnd(s, i + 1) ELSE i

\* pattern2 tried at position i:
\* <p class="bodytext"><span class="text-title1">[^<]*</span>\s*(PHRASE)\s+[\u4e00-\u9fff].*?</p>
Pattern2At(s, i) ==
    IF s[i] # PBody \/ i + 1 > Len(s) \/ s[i + 1] # SpanTitle THEN NoMatch
    ELSE LET j == NonTagRunEnd(s, i + 2)
         IN  IF j > Len(s) \/ s[j] # SpanClose THEN NoMatch
             ELSE LET a == SpaceRunEnd(s, j + 1)
                      z == PhraseRunEnd(s, a)
                      p == RStrip(SubSeq(s, a, z - 1))
                  IN  IF z > Len(s) \/ s[z] # Cjk \/ z - 1 < a \/ ~IsSpace(s[z - 1])
                         \/ ~PhraseFrom(p, 1, FALSE) \/ Find(s, PClose, z + 1) = 0
                      THEN NoMatch
                      ELSE [ok |-> TRUE, cap |-> p, end |-> Find(s, PClose, z + 1)]

\* re.findall(pattern1, content): the captures of the non-overlapping matches,
\* left to right
RECURSIVE FindAll1(_, _)
FindAll1(s, i) ==
    IF i > Len(s) THEN <<>>
    ELSE LET m == Pattern1At(s, i)
         IN  IF m.ok THEN <<m.cap>> \o FindAll1(s, m.end + 1)
             ELSE FindAll1(s, i + 1)

RECURSIVE FindAll2(_, _)
FindAll2(s, i) ==
    IF i > Len(s) THEN <<>>
    ELSE LET m == Pattern2At(s, i)
         IN  IF m.ok THEN <<m.cap>> \o FindAll2(s, m.end + 1)
             ELSE FindAll2(s, i + 1)

extract_vocabulary_entries(s) == FindAll1(s, 1) \o FindAll2(s, 1)

---------------------------------------------------------------------------
(* clean_html_content *)

Entities == {"&mdash;", "&nbsp;", "&eacute;"}

\* re.sub(r'<style[^>]*>.*?</style>', '', content)
RECURSIVE RemoveStyle(_, _)
RemoveStyle(s, i) ==
    IF i > Len(s) THEN <<>>
    ELSE IF s[i] = StyleOpen /\ Find(s, StyleClose, i + 1) # 0
         THEN RemoveStyle(s, Find(s, StyleClose, i + 1) + 1)
         ELSE <<s[i]>> \o RemoveStyle(s, i + 1)

\* re.sub(r'<[^>]+>', ' ', content)
RemoveTags(s) == [i \in 1..Len(s) |-> IF IsTag(s[i]) THEN " " ELSE s[i]]

\* the html_entities table, then re.sub(r'&[a-zA-Z0-9#]+;', ' ', content)
ReplaceEntity(c) ==
    CASE c = "&mdash;" -> "-" [] c = "&nbsp;" -> " " [] c \in Entities -> " "
      [] OTHER -> c

ReplaceEntities(s) == [i \in 1..Len(s) |-> ReplaceEntity(s[i])]

\* re.sub(r'\s+', ' ', content)
RECURSIVE CollapseSpace(_, _)
CollapseSpace(s, i) ==
    IF i > Len(s) THEN <<>>
    ELSE IF IsSpace(s[i]) THEN <<" ">> \o CollapseSpace(s, SpaceRunEnd(s, i))
         ELSE <<s[i]>> \o CollapseSpace(s, i + 1)

clean_html_content(s) ==
    Strip(CollapseSpace(ReplaceEntities(RemoveTags(RemoveStyle(s, 1))), 1))

---------------------------------------------------------------------------
(* extract_english_words *)

StopList ==
    { <<"w", "w", "w">>, <<"h", "t", "t", "p">>, <<"h", "t", "t", "p", "s">>,
      <<"c", "o", "m">>, <<"o", "r", "g">>, <<"n", "e", "t">>,
      <<"h", "t", "m", "l">>, <<"c", "s", "s">>, <<"j", "s">> }

\* the ends at which \b[a-zA-Z]+(?:[-'][a-zA-Z]+)*\b, started at i, can stop
WordEnds(s, i) ==
    {e \in ChainEnds(s, i) : e = Len(s) \/ ~IsWordChar(s[e + 1])}

\* re.findall(word_pattern, content)
RECURSIVE FindWords(_, _)
FindWords(s, i) ==
    IF i > Len(s) THEN <<>>
    ELSE LET ends == WordEnds(s, i)
         IN  IF IsLetter(s[i]) /\ (i = 1 \/ ~IsWordChar(s[i - 1])) /\ ends # {}
             THEN <<SubSeq(s, i, Max(ends))>> \o FindWords(s, Max(ends) + 1)
             ELSE FindWords(s, i + 1)

\* the three filters both tiers apply to a word
Keep(word) == Len(word) >= 2 /\ ~HasDigit(word) /\ word \notin StopList

RECURSIVE Filter(_)
Filter(ws) ==
    IF ws = <<>> THEN <<>>
    ELSE (IF Keep(Head(ws)) THEN <<Head(ws)>> ELSE <<>>) \o Filter(Tail(ws))

InSeq(x, ws) == \E i \in 1..Len(ws) : ws[i] = x

\* the seen-set loop: each word once, at its first occurrence
RECURSIVE Unique(_, _)
Unique(ws, acc) ==
    IF ws = <<>> THEN acc
    ELSE Unique(Tail(ws), IF InSeq(Head(ws), acc) THEN acc ELSE Append(acc, Head(ws)))

LowerAll(ws) == [i \in 1..Len(ws) |-> Lower(ws[i])]

extract_english_words(s) == Unique(Filter(LowerAll(FindWords(s, 1))), <<>>)

---------------------------------------------------------------------------
(* extract_words_from_content *)

StripAll(ws) == [i \in 1..Len(ws) |-> Strip(ws[i])]

\* the tier-1 branch: strip, filter, deduplicate
Tier1Words(vw) == Unique(Filter(StripAll(vw)), <<>>)

\* UseTier1 deciding on the filtered words instead of the raw captures
UseTier1_AfterFilter(vw) == Tier1Words(vw) # <<>>

\* if vocabulary_words:
UseTier1(vw) == vw # <<>>

extract_words_from_content(s) ==
    LET vw == extract_vocabulary_entries(s)
    IN  IF UseTier1(vw)
        THEN [vocabulary_words |-> vw, words |-> Tier1Words(vw),
              called |-> {"extract_vocabulary_entries"}]
        ELSE [vocabulary_words |-> vw,
              words |-> extract_english_words(clean_html_content(s)),
              called |-> {"extract_vocabulary_entries", "clean_html_content",
                          "extract_english_words"}]

---------------------------------------------------------------------------
(* The inputs of the word extractor: markup built of vocabulary entries of *)
(* the two shapes, plain paragraphs and style blocks.                      *)

MaxSegs == 3

Texts ==
    { <<"a", "b">>, <<"A", "b">>, <<"a">>, <<"j", "s">>,
      <<"a", "b", " ", "j", "s">>, <<"a", "-", "b">> }

\* Shape A: <p class="bodytext">text <span class="yinbiao">/</span></p>
ShapeA(t) == <<PBody>> \o t \o <<" ", SpanYinbiao, "/", SpanClose, PClose>>

\* Shape B: <p class="bodytext"><span class="text-title1">CJK</span> text CJK</p>
ShapeB(t) == <<PBody, SpanTitle, Cjk, SpanClose, " ">> \o t \o <<" ", Cjk, PClose>>

Prose(t) == <<PPlain>> \o t \o <<PClose>>

StyleBlock(t) == <<StyleOpen>> \o t \o <<StyleClose>>

Segments ==
    {ShapeA(t) : t \in Texts} \cup {ShapeB(t) : t \in Texts}
    \cup {Prose(t) : t \in Texts} \cup {StyleBlock(<<"a", "b">>)}

RECURSIVE Flatten(_)
Flatten(segs) == IF segs = <<>> THEN <<>> ELSE Head(segs) \o Flatten(Tail(segs))

SeqsUpTo(S, n) == UNION {[1..k -> S] : k \in 0..n}

IdleW == /\ content = <<>> /\ wpc = "idle" /\ vocabulary_words = <<>>
         /\ words = <<>> /\ called = {}

NoFile == [st |-> "missing", lines |-> <<>>]
NoOutput == [exists |-> FALSE, lines |-> <<>>]

IdleC == /\ file1 = NoFile /\ file2 = NoFile /\ out_file = NoOutput
         /\ out_before = NoOutput
         /\ out_writable = FALSE /\ cpc = "idle" /\ words1_list = <<>>
         /\ words2_set = {} /\ cresult = 0

IdleS == /\ archive = [container |-> "absent", opf |-> "none",
                       items |-> <<>>, spine |-> <<>>]
         /\ spc = "idle" /\ ordered_files = <<>>

None == [some |-> FALSE, v |-> 0]
Some(x) == [some |-> TRUE, v |-> x]

IdleM == /\ args = [epub_exists |-> FALSE, pages |-> <<>>, list_files |-> FALSE]
         /\ book = <<>> /\ disk_ok = FALSE /\ mpc = "idle"
         /\ range = <<None, None>> /\ range_err = FALSE /\ files_to_process = <<>>
         /\ mcontent = <<>> /\ mwords = <<>> /\ output = NoOutput
         /\ printed = {} /\ exit_code = 0

InitWords ==
    /\ content \in {Flatten(segs) : segs \in SeqsUpTo(Segments, MaxSegs)}
    /\ wpc = "start" /\ vocabulary_words = <<>> /\ words = <<>> /\ called = {}
    /\ IdleC /\ IdleS /\ IdleM

\* one call of extract_words_from_content(content)
ExtractWords ==
    /\ wpc = "start"
    /\ LET r == extract_words_from_content(content)
       IN  /\ vocabulary_words' = r.vocabulary_words
           /\ words' = r.words
           /\ called' = r.called
    /\ wpc' = "done"
    /\ UNCHANGED <<content, cvars, svars, mvars>>

NextWords == ExtractWords

SpecWords == InitWords /\ [][NextWords]_vars

---------------------------------------------------------------------------
(* Claims on the word extractor *)

\* ^[a-z]+([-'][a-z]+)*$
IsLowerWord(w) ==
    /\ Len(w) \in ChainEnds(w, 1)
    /\ \A i \in 1..Len(w) : w[i] \notin UpperLetters

\* what the specification says of every token of a WordList
WellFormedToken(w) ==
    /\ IsLowerWord(w) /\ Len(w) >= 2 /\ ~HasDigit(w) /\ w \notin StopList

\* C1: every token returned by extract_words_from_content, by either tier, is
\* lowercase, matches ^[a-z]+([-'][a-z]+)*$, has length >= 2, holds no digit
\* and is not in the stop list.
C1_TokensWellFormed ==
    wpc = "done" => \A i \in 1..Len(words) : WellFormedToken(words[i])

\* The captures of both patterns in the order of their place in the text.
RECURSIVE TextOrderCaptures(_, _)
TextOrderCaptures(s, i) ==
    IF i > Len(s) THEN <<>>
    ELSE (IF Pattern1At(s, i).ok THEN <<Strip(Pattern1At(s, i).cap)>>
          ELSE IF Pattern2At(s, i).ok THEN <<Strip(Pattern2At(s, i).cap)>>
          ELSE <<>>) \o TextOrderCaptures(s, i + 1)

\* The tokens of the text in text order: the entries' words when the text
\* holds vocabulary entries, the lowercased words of the stripped text if not.
SourceTokens(s) ==
    IF TextOrderCaptures(s, 1) # <<>> THEN TextOrderCaptures(s, 1)
    ELSE LowerAll(FindWords(clean_html_content(s), 1))

\* the first index of x in ws, 0 when x is not in ws
FirstIndex(x, ws) ==
    IF InSeq(x, ws) THEN CHOOSE i \in 1..Len(ws) :
                            ws[i] = x /\ \A k \in 1..(i - 1) : ws[k] # x
    ELSE 0

\* C2: the returned list holds no token twice and its tokens are in the order
\* of their first occurrence in the input text, whatever the interleaving of
\* Shape-A and Shape-B entries.
C2_DistinctInTextOrder ==
    wpc = "done" =>
        /\ \A i, j \in 1..Len(words) : i # j => words[i] # words[j]
        /\ \A i \in 1..Len(words) : FirstIndex(words[i], SourceTokens(content)) > 0
        /\ \A i, j \in 1..Len(words) :
              i < j => FirstIndex(words[i], SourceTokens(content))
                         < FirstIndex(words[j], SourceTokens(content))

\* the text holds at least one vocabulary entry of Shape A or Shape B
HasEntry(s) == \E i \in 1..Len(s) : Pattern1At(s, i).ok \/ Pattern2At(s, i).ok

FallbackRan == called \cap {"clean_html_content", "extract_english_words"} # {}

\* C3: when tier 1 yields at least one match the fallback is not run and the
\* result holds tier-1 captures only; the fallback runs exactly when tier 1
\* yields no match.
C3_TierOneExclusive ==
    wpc = "done" =>
        /\ HasEntry(content) <=> ~FallbackRan
        /\ HasEntry(content) =>
              \A i \in 1..Len(words) : InSeq(words[i], TextOrderCaptures(content, 1))

\* a run in which every capture was filtered out although the surrounding
\* prose holds a word the fallback would return
C3_Witness ==
    /\ wpc = "done" /\ HasEntry(content) /\ words = <<>> /\ ~FallbackRan
    /\ extract_english_words(clean_html_content(content)) # <<>>

---------------------------------------------------------------------------
(* find_common_words *)

MaxLines1 == 3
MaxLines2 == 2

\* the lines of a word-list file, without their line ends
Lines == { <<"a", "b">>, <<" ", "a", "b">>, <<"j", "s">>, <<" ">> }

\* the words of the lines: word = line.strip(), kept if word
RECURSIVE StrippedNonBlank(_)
StrippedNonBlank(ls) ==
    IF ls = <<>> THEN <<>>
    ELSE (IF Strip(Head(ls)) # <<>> THEN <<Strip(Head(ls))>> ELSE <<>>)
         \o StrippedNonBlank(Tail(ls))

\* ReadWords taking a file that cannot be read for an empty list
ReadWords_EmptyOnError(f) ==
    [ok |-> TRUE, words |-> IF f.st = "ok" THEN StrippedNonBlank(f.lines) ELSE <<>>]

\* open(path, 'r') and the loop over its lines; ok is FALSE when the open or
\* the read raises
ReadWords(f) ==
    IF f.st = "ok" THEN [ok |-> TRUE, words |-> StrippedNonBlank(f.lines)]
    ELSE [ok |-> FALSE, words |-> <<>>]

Range(ws) == {ws[i] : i \in 1..Len(ws)}

\* the loop over words1_list with the seen set
RECURSIVE CommonLoop(_, _, _, _)
CommonLoop(ws, set2, common, seen) ==
    IF ws = <<>> THEN common
    ELSE IF Head(ws) \in set2 /\ Head(ws) \notin seen
         THEN CommonLoop(Tail(ws), set2, Append(common, Head(ws)), seen \cup {Head(ws)})
         ELSE CommonLoop(Tail(ws), set2, common, seen)

\* common_words without the seen set: every occurrence is kept
RECURSIVE common_words_NoSeen(_, _)
common_words_NoSeen(ws, set2) ==
    IF ws = <<>> THEN <<>>
    ELSE (IF Head(ws) \in set2 THEN <<Head(ws)>> ELSE <<>>)
         \o common_words_NoSeen(Tail(ws), set2)

common_words(ws, set2) == CommonLoop(ws, set2, <<>>, {})

WordFiles(n) ==
    {[st |-> "ok", lines |-> ls] : ls \in SeqsUpTo(Lines, n)}
    \cup {[st |-> "missing", lines |-> <<>>], [st |-> "unreadable", lines |-> <<>>]}

InitCommon ==
    /\ file1 \in WordFiles(MaxLines1)
    /\ file2 \in WordFiles(MaxLines2)
    /\ out_file \in {NoOutput, [exists |-> TRUE, lines |-> << <<"o", "l", "d">> >>]}
    /\ out_before = out_file
    /\ out_writable \in BOOLEAN
    /\ cpc = "start" /\ words1_list = <<>> /\ words2_set = {} /\ cresult = 0
    /\ IdleW /\ IdleS /\ IdleM

\* lines 17-22: read file1 into words1_list; an exception returns -1
ReadFile1 ==
    /\ cpc = "start"
    /\ IF ReadWords(file1).ok
       THEN /\ words1_list' = ReadWords(file1).words
            /\ cpc' = "read1"
            /\ UNCHANGED cresult
       ELSE /\ cresult' = -1
            /\ cpc' = "done"
            /\ UNCHANGED words1_list
    /\ UNCHANGED <<file1, file2, out_file, out_before, out_writable, words2_set,
                   wvars, svars, mvars>>

\* lines 25-26: read file2 into words2_set; an exception returns -1
ReadFile2 ==
    /\ cpc = "read1"
    /\ IF ReadWords(file2).ok
       THEN /\ words2_set' = Range(ReadWords(file2).words)
            /\ cpc' = "read2"
            /\ UNCHANGED cresult
       ELSE /\ cresult' = -1
            /\ cpc' = "done"
            /\ UNCHANGED words2_set
    /\ UNCHANGED <<file1, file2, out_file, out_before, out_writable, words1_list,
                   wvars, svars, mvars>>

\* lines 29-45: compute the common words, write them, return their number;
\* open(output_path, 'w') raising returns -1
WriteCommon ==
    /\ cpc = "read2"
    /\ IF out_writable
       THEN /\ out_file' = [exists |-> TRUE,
                            lines |-> common_words(words1_list, words2_set)]
            /\ cresult' = Len(common_words(words1_list, words2_set))
       ELSE /\ cresult' = -1
            /\ UNCHANGED out_file
    /\ cpc' = "done"
    /\ UNCHANGED <<file1, file2, out_before, out_writable, words1_list, words2_set,
                   wvars, svars, mvars>>

NextCommon == ReadFile1 \/ ReadFile2 \/ WriteCommon

SpecCommon == InitCommon /\ [][NextCommon]_vars

---------------------------------------------------------------------------
(* Claims on find_common_words *)

\* the non-blank stripped lines of a readable file
WordsOf(f) == StrippedNonBlank(f.lines)

\* C4: for readable files A and B the output file holds, one per line, the
\* words of A that are words of B, in A's order, each once at the place of its
\* first occurrence in A, and the call returns their number.
C4_OrderedIntersection ==
    (cpc = "done" /\ file1.st = "ok" /\ file2.st = "ok" /\ out_writable) =>
        /\ out_file.exists
        /\ Range(out_file.lines) = Range(WordsOf(file1)) \cap Range(WordsOf(file2))
        /\ \A i, j \in 1..Len(out_file.lines) :
              i < j => FirstIndex(out_file.lines[i], WordsOf(file1))
                         < FirstIndex(out_file.lines[j], WordsOf(file1))
        /\ cresult = Len(out_file.lines)

\* A holds a common word twice and a word that B lacks
C4_Witness ==
    /\ cpc = "done" /\ file1.st = "ok" /\ file2.st = "ok" /\ out_writable
    /\ cresult = 1
    /\ Len(WordsOf(file1)) = 3
    /\ WordsOf(file1)[1] = WordsOf(file1)[3]
    /\ WordsOf(file1)[1] \in Range(WordsOf(file2))
    /\ WordsOf(file1)[2] \notin Range(WordsOf(file2))

\* C10: when file1 or file2 is missing or unreadable the call returns -1 and
\* the output file is neither created nor modified.
C10_MissingInputSentinel ==
    (cpc = "done" /\ (file1.st # "ok" \/ file2.st # "ok")) =>
        cresult = -1 /\ out_file = out_before

\* list B is missing, list A is readable and the output path is writable
C10_Witness ==
    /\ cpc = "done" /\ file1.st = "ok" /\ file1.lines # <<>> /\ file2.st = "missing"
    /\ out_writable /\ cresult = -1 /\ out_file = out_before

---------------------------------------------------------------------------
(* get_epub_spine *)

MaxItems == 2
MaxSpine == 2

\* paths are sequences of characters
HtmlPath == <<"a", ".", "h", "t", "m", "l">>
XhtmlPath == <<"b", ".", "X", "H", "T", "M", "L">>
HtmPath == <<"s", ".", "H", "t", "m">>
PngPath == <<"j", ".", "p", "n", "g">>
Hrefs == {HtmlPath, XhtmlPath, HtmPath, PngPath}

ItemIds == {"i1", "i2"}
SpineIds == ItemIds \cup {"ghost"}

\* An <item> element of the package document: its id and href attributes and
\* which of the two comes first in the markup.
Items == [id : ItemIds, href : Hrefs, id_first : BOOLEAN]

\* str.endswith(suffix)
EndsWith(s, suf) ==
    Len(s) >= Len(suf) /\ SubSeq(s, Len(s) - Len(suf) + 1, Len(s)) = suf

\* file_path.lower().endswith(('.html', '.xhtml', '.htm'))
IsHtmlLike(path) ==
    \/ EndsWith(Lower(path), <<".", "h", "t", "m", "l">>)
    \/ EndsWith(Lower(path), <<".", "x", "h", "t", "m", "l">>)
    \/ EndsWith(Lower(path), <<".", "h", "t", "m">>)

\* os.path.join(opf_dir, href).replace('\\', '/') when opf_dir, href otherwise
FullPath(opf_dir, href) == IF opf_dir # <<>> THEN opf_dir \o <<"/">> \o href ELSE href

\* whether <item[^>]+id="([^"]+)"[^>]+href="([^"]+)" matches the element: the
\* id attribute has to stand before the href attribute
ItemMatches(item) == item.id_first

\* the manifest dict built from the matches, a later id replacing an earlier
RECURSIVE Manifest(_, _, _)
Manifest(items, opf_dir, m) ==
    IF items = <<>> THEN m
    ELSE Manifest(Tail(items), opf_dir,
                  IF ItemMatches(Head(items))
                  THEN [x \in DOMAIN m \cup {Head(items).id} |->
                           IF x = Head(items).id
                           THEN FullPath(opf_dir, Head(items).href) ELSE m[x]]
                  ELSE m)

EmptyMap == [x \in {} |-> <<>>]

\* the loop over spine_matches
RECURSIVE OrderedFiles(_, _)
OrderedFiles(spine, m) ==
    IF spine = <<>> THEN <<>>
    ELSE (IF Head(spine) \in DOMAIN m /\ IsHtmlLike(m[Head(spine)])
          THEN <<m[Head(spine)]>> ELSE <<>>) \o OrderedFiles(Tail(spine), m)

\* the paths a package document can have in the archive
OpfPaths == {"p.opf", "d/p.opf"}

\* os.path.dirname(opf_path)
DirName(opf_path) == IF opf_path = "d/p.opf" THEN <<"d">> ELSE <<>>

\* Lines 25-46: the path of the package document, "none" when there is none.
\* archive.container is "absent" (no META-INF/container.xml), "no_ref" (no
\* full-path="*.opf" in it) or the path it names; archive.opf is the *.opf
\* entry of the archive, "none" when it has none.
OpfPath(a) == IF a.container \in OpfPaths THEN a.container ELSE a.opf

\* epub_zip.open(opf_path) raises KeyError when the archive has no such entry
OpfOpens(a) == OpfPath(a) # "none" /\ OpfPath(a) = a.opf

get_epub_spine(a) ==
    IF ~OpfOpens(a) THEN <<>>
    ELSE OrderedFiles(a.spine, Manifest(a.items, DirName(OpfPath(a)), EmptyMap))

DistinctIds(items) ==
    \A i, j \in 1..Len(items) : i # j => items[i].id # items[j].id

Archives ==
    [container : {"absent", "no_ref"} \cup OpfPaths,
     opf : {"none"} \cup OpfPaths,
     items : {is \in SeqsUpTo(Items, MaxItems) : DistinctIds(is)},
     spine : SeqsUpTo(SpineIds, MaxSpine)]

InitSpine ==
    /\ archive \in Archives
    /\ spc = "start" /\ ordered_files = <<>>
    /\ IdleW /\ IdleC /\ IdleM

\* one call of get_epub_spine(epub_file_path)
GetEpubSpine ==
    /\ spc = "start"
    /\ ordered_files' = get_epub_spine(archive)
    /\ spc' = "done"
    /\ UNCHANGED <<archive, wvars, cvars, mvars>>

NextSpine == GetEpubSpine

SpecSpine == InitSpine /\ [][NextSpine]_vars

---------------------------------------------------------------------------
(* Claims on get_epub_spine *)

\* the item of the manifest with the given id, whatever the order of its
\* attributes; ids are unique within a package
HasItem(a, id) == \E i \in 1..Len(a.items) : a.items[i].id = id
ItemOf(a, id) == a.items[CHOOSE i \in 1..Len(a.items) : a.items[i].id = id]

RECURSIVE SpineThroughManifest(_, _)
SpineThroughManifest(a, spine) ==
    IF spine = <<>> THEN <<>>
    ELSE (IF HasItem(a, Head(spine))
             /\ IsHtmlLike(FullPath(DirName(a.opf), ItemOf(a, Head(spine)).href))
          THEN <<FullPath(DirName(a.opf), ItemOf(a, Head(spine)).href)>> ELSE <<>>)
         \o SpineThroughManifest(a, Tail(spine))

\* C7: for an archive whose package document is resolvable, get_epub_spine
\* returns the spine idrefs mapped, in spine order, through the manifest of
\* every item that has an id and an href (in either order), without the
\* idrefs missing from the manifest and the paths that are not HTML-like.
C7_SpineThroughManifest ==
    (spc = "done" /\ OpfOpens(archive)) =>
        ordered_files = SpineThroughManifest(archive, archive.spine)

---------------------------------------------------------------------------
(* parse_page_range *)

DigitValue(c) ==
    CASE c = "0" -> 0 [] c = "1" -> 1 [] c = "2" -> 2 [] c = "3" -> 3 [] c = "4" -> 4
      [] c = "5" -> 5 [] c = "6" -> 6 [] c = "7" -> 7 [] c = "8" -> 8 [] c = "9" -> 9

AllDigits(s) == s # <<>> /\ \A i \in 1..Len(s) : s[i] \in Digits

RECURSIVE DecimalValue(_)
DecimalValue(s) ==
    IF s = <<>> THEN 0
    ELSE 10 * DecimalValue(SubSeq(s, 1, Len(s) - 1)) + DigitValue(s[Len(s)])

\* int(s): whitespace around the literal is skipped, a sign may lead it;
\* ok is FALSE where int raises ValueError
IntOf(s) ==
    LET p == Strip(s)
        signed == p # <<>> /\ p[1] \in {"-", "+"}
        body == IF signed THEN Tail(p) ELSE p
    IN  IF AllDigits(body)
        THEN [ok |-> TRUE,
              v |-> IF signed /\ p[1] = "-" THEN 0 - DecimalValue(body)
                    ELSE DecimalValue(body)]
        ELSE [ok |-> FALSE, v |-> 0]

RangeError == [err |-> TRUE, start |-> None, end |-> None]

\* int(part) if part else None
Bound(part) == IF part = <<>> THEN None ELSE Some(IntOf(part).v)

parse_page_range(s) ==
    IF s = <<>> THEN [err |-> FALSE, start |-> None, end |-> None]
    ELSE IF Find(s, "-", 1) = 0
    THEN IF IntOf(s).ok
         THEN [err |-> FALSE, start |-> Some(IntOf(s).v), end |-> Some(IntOf(s).v)]
         ELSE RangeError
    ELSE LET k == Find(s, "-", 1)
             start_str == Strip(SubSeq(s, 1, k - 1))
             end_str == Strip(SubSeq(s, k + 1, Len(s)))
         IN  IF (start_str # <<>> /\ ~IntOf(start_str).ok)
                \/ (end_str # <<>> /\ ~IntOf(end_str).ok)
             THEN RangeError
             ELSE IF start_str # <<>> /\ end_str # <<>>
                     /\ IntOf(start_str).v > IntOf(end_str).v
             THEN RangeError
             ELSE [err |-> FALSE, start |-> Bound(start_str), end |-> Bound(end_str)]

---------------------------------------------------------------------------
(* extract_epub_content_by_range *)

MaxOf(a, b) == IF a >= b THEN a ELSE b
MinOf(a, b) == IF a <= b THEN a ELSE b

\* The 1-based positions that the slice [a:b] takes of a list of length n,
\* a >= 0: a negative b counts from the end of the list.
SlicePositions(n, a, b) ==
    LET lo == MinOf(a, n)
        hi == IF b < 0 THEN MaxOf(0, n + b) ELSE MinOf(b, n)
    IN  [k \in 1..MaxOf(0, hi - lo) |-> lo + k]

\* the loop over files_to_process: content + "\n" for each file
RECURSIVE ReadFiles(_, _)
ReadFiles(files, positions) ==
    IF positions = <<>> THEN <<>>
    ELSE files[Head(positions)] \o <<"\n">> \o ReadFiles(files, Tail(positions))

\* files: the ordered content files of the archive (get_epub_spine, or all
\* HTML files when it returns none), each with its text
extract_epub_content_by_range(files, start_page, end_page) ==
    LET total_files == Len(files)
        start_idx == IF ~start_page.some THEN 0 ELSE MaxOf(0, start_page.v - 1)
        end_idx == IF ~end_page.some THEN total_files
                   ELSE MinOf(total_files, end_page.v)
    IN  IF start_idx >= total_files
        THEN [out_of_range |-> TRUE, positions |-> <<>>, content |-> <<>>]
        ELSE [out_of_range |-> FALSE,
              positions |-> SlicePositions(total_files, start_idx, end_idx),
              content |-> ReadFiles(files,
                                    SlicePositions(total_files, start_idx, end_idx))]

---------------------------------------------------------------------------
(* main *)

MaxRangeLen == 3
MaxFiles == 2

RangeChars == {"1", "2", "-", " ", "x"}

\* the text of a content file
FileTexts == {ShapeA(<<"a", "b">>), Prose(<<"j", "s">>)}

\* AfterParse reporting the error without leaving main
AfterParse_NoExit(p) == "extract"

\* except ValueError: print, sys.exit(1)
AfterParse(p) == IF p.err THEN "exit" ELSE "extract"

InitMain ==
    /\ args \in [epub_exists : BOOLEAN,
                 pages : SeqsUpTo(RangeChars, MaxRangeLen),
                 list_files : BOOLEAN]
    /\ book \in SeqsUpTo(FileTexts, MaxFiles)
    /\ disk_ok \in BOOLEAN
    /\ mpc = "start"
    /\ range = <<None, None>> /\ range_err = FALSE /\ files_to_process = <<>>
    /\ mcontent = <<>> /\ mwords = <<>> /\ output = NoOutput
    /\ printed = {} /\ exit_code = 0
    /\ IdleW /\ IdleC /\ IdleS

mrest == <<args, book, disk_ok, wvars, cvars, svars>>

\* lines 399-418: the input file is looked for; --list-files lists and exits
Startup ==
    /\ mpc = "start"
    /\ IF ~args.epub_exists
       THEN /\ printed' = printed \cup {"file_not_found"}
            /\ exit_code' = 1 /\ mpc' = "exit"
       ELSE IF args.list_files
       THEN /\ printed' = printed \cup {"listed"}
            /\ exit_code' = 0 /\ mpc' = "exit"
       ELSE /\ mpc' = "parse"
            /\ UNCHANGED <<printed, exit_code>>
    /\ UNCHANGED <<range, range_err, files_to_process, mcontent, mwords, output, mrest>>

\* lines 420-435: the page range is parsed when one is given
ParseRange ==
    /\ mpc = "parse"
    /\ IF args.pages # <<>>
       THEN LET p == parse_page_range(args.pages)
            IN  /\ range' = <<p.start, p.end>>
                /\ range_err' = p.err
                /\ mpc' = AfterParse(p)
                /\ IF AfterParse(p) = "exit"
                   THEN /\ printed' = printed \cup {"invalid_range"}
                        /\ exit_code' = 1
                   ELSE UNCHANGED <<printed, exit_code>>
       ELSE /\ mpc' = "extract"
            /\ UNCHANGED <<range, range_err, printed, exit_code>>
    /\ UNCHANGED <<files_to_process, mcontent, mwords, output, mrest>>

\* lines 455-461: the content of the range is extracted; none is fatal
ExtractContent ==
    /\ mpc = "extract"
    /\ LET r == extract_epub_content_by_range(book, range[1], range[2])
       IN  /\ files_to_process' = r.positions
           /\ mcontent' = r.content
           /\ IF r.content = <<>>
              THEN /\ printed' = printed
                         \cup (IF r.out_of_range THEN {"start_out_of_range"} ELSE {})
                         \cup {"no_content"}
                   /\ exit_code' = 1 /\ mpc' = "exit"
              ELSE /\ mpc' = "words"
                   /\ UNCHANGED <<printed, exit_code>>
    /\ UNCHANGED <<range, range_err, mwords, output, mrest>>

\* lines 465-471: the words are extracted; none is fatal
ExtractWordsOfBook ==
    /\ mpc = "words"
    /\ mwords' = extract_words_from_content(mcontent).words
    /\ IF extract_words_from_content(mcontent).words = <<>>
       THEN /\ printed' = printed \cup {"no_words"}
            /\ exit_code' = 1 /\ mpc' = "exit"
       ELSE /\ mpc' = "save"
            /\ UNCHANGED <<printed, exit_code>>
    /\ UNCHANGED <<range, range_err, files_to_process, mcontent, output, mrest>>

\* save_words_to_file: the exception of a failed write is caught and printed
save_words_to_file(ws, ok) ==
    IF ok THEN [output |-> [exists |-> TRUE, lines |-> ws], printed |-> {"saved"}]
    ELSE [output |-> output, printed |-> {"save_error"}]

\* lines 480-486: the words are saved, completion is printed, main returns
SaveAndFinish ==
    /\ mpc = "save"
    /\ output' = save_words_to_file(mwords, disk_ok).output
    /\ printed' = printed \cup save_words_to_file(mwords, disk_ok).printed
                          \cup {"completed"}
    /\ exit_code' = 0 /\ mpc' = "exit"
    /\ UNCHANGED <<range, range_err, files_to_process, mcontent, mwords, mrest>>

NextMain == Startup \/ ParseRange \/ ExtractContent \/ ExtractWordsOfBook \/ SaveAndFinish

SpecMain == InitMain /\ [][NextMain]_vars

---------------------------------------------------------------------------
(* Claims on the range and on main *)

\* main has called extract_epub_content_by_range
Extracted ==
    \/ mpc \in {"words", "save"}
    \/ mpc = "exit" /\ printed \cap {"no_content", "no_words", "completed"} # {}

\* positions lo..hi, none when hi < lo
Positions(lo, hi) == [k \in 1..MaxOf(0, hi - lo + 1) |-> lo + k - 1]

\* C5: with start omitted or start <= N, the files processed are those at the
\* 1-based positions max(1, start or 1) .. min(N, end or N) of the list, in
\* list order; an end above N is clamped to N and no bounds select the list.
C5_RangeSelection ==
    (Extracted /\ (~range[1].some \/ range[1].v <= Len(book))) =>
        files_to_process =
            Positions(MaxOf(1, IF range[1].some THEN range[1].v ELSE 1),
                      MinOf(Len(book), IF range[2].some THEN range[2].v ELSE Len(book)))

\* main has called parse_page_range
Parsed ==
    /\ args.epub_exists /\ ~args.list_files /\ args.pages # <<>>
    /\ mpc \notin {"start", "parse"}

\* an unsigned decimal numeral, whitespace around it allowed
IsNumeral(s) == AllDigits(Strip(s))
NumeralValue(s) == DecimalValue(Strip(s))

IsBlank(s) == Strip(s) = <<>>

\* the part of s before its first "-" and the part after it
LeftOf(s) == SubSeq(s, 1, Find(s, "-", 1) - 1)
RightOf(s) == SubSeq(s, Find(s, "-", 1) + 1, Len(s))

\* C6: parse_page_range accepts the four forms "N", "A-B" with A <= B, "A-"
\* and "-B", returning (N, N), (A, B), (A, None) and (None, B), and raises a
\* format error for every other non-empty string.
C6_FourForms ==
    Parsed =>
        LET s == args.pages
        IN  IF Find(s, "-", 1) = 0
            THEN IF IsNumeral(s)
                 THEN ~range_err /\ range = <<Some(NumeralValue(s)), Some(NumeralValue(s))>>
                 ELSE range_err
            ELSE IF IsNumeral(LeftOf(s)) /\ IsNumeral(RightOf(s))
                    /\ NumeralValue(LeftOf(s)) <= NumeralValue(RightOf(s))
            THEN ~range_err
                 /\ range = <<Some(NumeralValue(LeftOf(s))), Some(NumeralValue(RightOf(s)))>>
            ELSE IF IsNumeral(LeftOf(s)) /\ IsBlank(RightOf(s))
            THEN ~range_err /\ range = <<Some(NumeralValue(LeftOf(s))), None>>
            ELSE IF IsBlank(LeftOf(s)) /\ IsNumeral(RightOf(s))
            THEN ~range_err /\ range = <<None, Some(NumeralValue(RightOf(s)))>>
            ELSE range_err

\* C8: when writing the word list fails, the failure is reported and the run
\* does not end as a success: it does not report completion and exit with 0.
C8_WriteFailureFailsRun ==
    (mpc = "exit" /\ "save_error" \in printed) =>
        ~("completed" \in printed /\ exit_code = 0)

\* the start position the range resolves to
ResolvedStart == MaxOf(1, IF range[1].some THEN range[1].v ELSE 1)

\* C9: a run whose range string cannot be parsed, or whose resolved start lies
\* beyond the N content files, reports the error, produces no content, exits
\* with a non-zero code, and neither reaches save_words_to_file nor creates
\* the output file.
C9_RangeErrorFatal ==
    (/\ mpc = "exit" /\ args.epub_exists /\ ~args.list_files
     /\ (range_err \/ ResolvedStart > Len(book))) =>
        /\ exit_code # 0
        /\ mcontent = <<>>
        /\ output = NoOutput
        /\ printed \cap {"saved", "save_error", "completed"} = {}
        /\ range_err => "invalid_range" \in printed
        /\ ~range_err => "start_out_of_range" \in printed

\* a run on a book with words and a writable output, ended by a range string
\* that cannot be parsed
C9_Witness ==
    /\ mpc = "exit" /\ range_err /\ exit_code = 1 /\ disk_ok
    /\ extract_words_from_content(ReadFiles(book, Positions(1, Len(book)))).words # <<>>

=============================================================================
